---- MODULE Spec2Model ----
(***************************************************************************)
(* A model of streamlit_app.py, the PyPI package web asset analyzer.       *)
(*                                                                         *)
(* Strings are sequences of one-character strings, so that split, strip,   *)
(* endswith, lower and Path.suffix are computed character by character.    *)
(* The disk is a set of nodes (directories and files) keyed by their path. *)
(* The package index, the network and the rendering library are the        *)
(* environment: the index is a value the requests read, and a request or a *)
(* rendering call may fail.                                                *)
(***************************************************************************)
EXTENDS Integers, Sequences, FiniteSets, TLC

VARIABLES
    pc,             \* "idle" between runs, "loop" in a run; "call", "returned" around a single call
    runs,           \* number of script runs started so far
    package_input,  \* value of the text field
    analyze_button, \* value of the button in the current run
    packages,       \* the parsed list of names
    i,              \* number of loop iterations completed in the current run
    dataframes,     \* the accumulator of per-package dataframes
    ui,             \* the elements rendered in the current run, in order
    disk,           \* the nodes that exist on disk
    http,           \* the URLs requested while processing the current package
    web,            \* the package index and file host: url -> response
    file_path,      \* the script's variable file_path
    assets,         \* the script's variable assets
    exc,            \* the exception that ended the last call or run, or NoExc
    call,           \* the arguments of the last call of download_package
    log             \* history: what each iteration of the current run did

vars == <<pc, runs, package_input, analyze_button, packages, i, dataframes,
          ui, disk, http, web, file_path, assets, exc, call, log>>

-----------------------------------------------------------------------------
(* Bounds of the model *)

MaxInputLen == 2
MaxRuns == 2
MaxReleases == 2
MaxMembers == 2

-----------------------------------------------------------------------------
(* Strings *)

RECURSIVE Join(_, _)
\* sep.join(parts)
Join(parts, sep) ==
    IF Len(parts) = 0 THEN <<>>
    ELSE IF Len(parts) = 1 THEN parts[1]
    ELSE parts[1] \o sep \o Join(Tail(parts), sep)

\* s.endswith(suffix)
EndsWith(s, suffix) ==
    /\ Len(s) >= Len(suffix)
    /\ SubSeq(s, Len(s) - Len(suffix) + 1, Len(s)) = suffix

\* s.startswith(prefix)
StartsWith(s, prefix) ==
    /\ Len(s) >= Len(prefix)
    /\ SubSeq(s, 1, Len(prefix)) = prefix

UpperCase ==
    <<"A", "B", "C", "D", "E", "F", "G", "H", "I", "J", "K", "L", "M",
      "N", "O", "P", "Q", "R", "S", "T", "U", "V", "W", "X", "Y", "Z">>
LowerCase ==
    <<"a", "b", "c", "d", "e", "f", "g", "h", "i", "j", "k", "l", "m",
      "n", "o", "p", "q", "r", "s", "t", "u", "v", "w", "x", "y", "z">>

\* str.lower() on one character
LowerChar(c) ==
    IF \E k \in 1..Len(UpperCase) : UpperCase[k] = c
    THEN LowerCase[CHOOSE k \in 1..Len(UpperCase) : UpperCase[k] = c]
    ELSE c

\* str.lower()
Lower(s) == [k \in 1..Len(s) |-> LowerChar(s[k])]

\* s.rfind(c), 1-based; 0 when c does not occur
RFind(s, c) ==
    LET hits == {k \in 1..Len(s) : s[k] = c}
    IN  IF hits = {} THEN 0 ELSE CHOOSE k \in hits : \A h \in hits : h <= k

\* the position of the first occurrence of c in s, 0 when there is none
Find(s, c) ==
    LET hits == {k \in 1..Len(s) : s[k] = c}
    IN  IF hits = {} THEN 0 ELSE CHOOSE k \in hits : \A h \in hits : k <= h

RECURSIVE Split(_, _)
\* s.split(sep) for a one-character separator
Split(s, sep) ==
    LET k == Find(s, sep)
    IN  IF k = 0 THEN <<s>>
        ELSE <<SubSeq(s, 1, k - 1)>> \o Split(SubSeq(s, k + 1, Len(s)), sep)

Whitespace == {" "}

\* s.strip()
Strip(s) ==
    LET keep == {k \in 1..Len(s) : s[k] \notin Whitespace}
    IN  IF keep = {} THEN <<>>
        ELSE SubSeq(s, CHOOSE k \in keep : \A h \in keep : k <= h,
                       CHOOSE k \in keep : \A h \in keep : h <= k)

\* PurePath.suffix of a final path component
Suffix(name) ==
    LET k == RFind(name, ".")
    IN  IF 1 < k /\ k < Len(name) THEN SubSeq(name, k, Len(name)) ELSE <<>>

Digit == <<"0", "1", "2", "3", "4", "5", "6", "7", "8", "9">>

RECURSIVE Str(_)
\* str(n) for a natural number
Str(n) == IF n < 10 THEN <<Digit[n + 1]>> ELSE Str(n \div 10) \o <<Digit[(n % 10) + 1]>>

-----------------------------------------------------------------------------
(* Values *)

\* Python's None, distinct from every string of characters
None == <<"None">>

\* bool(x) is False for None and for the empty string
Falsy(x) == x = None \/ x = <<>>

NoExc == [type |-> "none", args |-> <<>>]

NoBody == [format |-> "none", members |-> {}, size |-> 0, complete |-> TRUE]

\* a directory and a file of the disk
DirNode(p) == [path |-> p, kind |-> "dir", body |-> NoBody]
FileNode(p, b) == [path |-> p, kind |-> "file", body |-> b]

Paths(d) == {n.path : n \in d}

TAR_GZ == <<".", "t", "a", "r", ".", "g", "z">>
ZIP == <<".", "z", "i", "p">>
SEP == <<"/">>

PYPI_PREFIX == <<"h", "t", "t", "p", "s", ":", "/", "/", "p", "y", "p", "i", ".", "o", "r", "g", "/", "p", "y", "p", "i", "/">>
JSON_SUFFIX == <<"/", "j", "s", "o", "n">>
TMP_PREFIX == <<"/", "t", "m", "p", "/", "t", "m", "p">>

-----------------------------------------------------------------------------
(* The environment: HTTP and temporary names *)

NotFound == [status |-> 404, json |-> None, body |-> NoBody]
JsonPage(data) == [status |-> 200, json |-> data, body |-> NoBody]
FilePage(b) == [status |-> 200, json |-> None, body |-> b]

\* the response to requests.get(url) when the transport succeeds
Get(w, url) == IF url \in DOMAIN w THEN w[url] ELSE NotFound

\* tempfile.mkdtemp(): a directory name that does not exist yet
Mkdtemp(d) ==
    LET free == {n \in 0..Cardinality(d) : (TMP_PREFIX \o Str(n)) \notin Paths(d)}
    IN  TMP_PREFIX \o Str(CHOOSE n \in free : \A m \in free : n <= m)

\* what is left of a body when the stream breaks while it is being written
Partial(b) == [b EXCEPT !.complete = FALSE]

-----------------------------------------------------------------------------
(* download_package *)

Raised(type, args, d, reqs) ==
    [raised |-> TRUE, exc |-> [type |-> type, args |-> args], value |-> None,
     disk |-> d, http |-> reqs]

Returned(v, d, reqs) ==
    [raised |-> FALSE, exc |-> NoExc, value |-> v, disk |-> d, http |-> reqs]

\* a selection that takes the first release file whatever its type
SdistUrlAnyType(release_files) ==
    IF Len(release_files) = 0 THEN None ELSE release_files[1].url

\* the loop of lines 20-24: the url of the first release file of type sdist
SdistUrl(release_files) ==
    LET sd == {k \in 1..Len(release_files) : release_files[k].packagetype = "sdist"}
    IN  IF sd = {} THEN None
        ELSE release_files[CHOOSE k \in sd : \A h \in sd : k <= h].url

\* lines 29-39: the download into a fresh temporary directory.  net2 is what
\* the transport does to the second request: "ok", "fail" (no response) or
\* "cut" (the stream breaks after the file was opened).
Fetch(package_name, download_url, w, d, reqs, net2) ==
    LET temp_dir == Mkdtemp(d)
        path == temp_dir \o SEP \o package_name \o TAR_GZ
        d1 == d \cup {DirNode(temp_dir)}
        reqs2 == Append(reqs, download_url)
        r2 == Get(w, download_url)
    IN  IF net2 = "fail" THEN Raised("ConnectionError", <<download_url>>, d1, reqs2)
        ELSE IF r2.status >= 400 THEN Raised("HTTPError", <<download_url>>, d1, reqs2)
        ELSE IF net2 = "cut"
             THEN Raised("ChunkedEncodingError", <<download_url>>,
                         d1 \cup {FileNode(path, Partial(r2.body))}, reqs2)
        ELSE Returned(path, d1 \cup {FileNode(path, r2.body)}, reqs2)

\* download_package(package_name, version) on the web w and the disk d; net
\* is what the transport does to the first and to the second request
download_package(package_name, version, w, d, net) ==
    LET pypi_url == PYPI_PREFIX \o package_name \o JSON_SUFFIX
        reqs == <<pypi_url>>
        r1 == Get(w, pypi_url)
    IN  IF net[1] # "ok" THEN Raised("ConnectionError", <<pypi_url>>, d, reqs)
        ELSE IF r1.status >= 400 THEN Raised("HTTPError", <<pypi_url>>, d, reqs)
        ELSE
          LET package_data == r1.json
              v == IF version = None THEN package_data.info.version ELSE version
          IN  IF v \notin DOMAIN package_data.releases
              THEN Raised("KeyError", <<v>>, d, reqs)
              ELSE
                LET download_url == SdistUrl(package_data.releases[v])
                IN  IF Falsy(download_url)
                    THEN Raised("ValueError", <<package_name, v>>, d, reqs)
                    ELSE Fetch(package_name, download_url, w, d, reqs, net[2])

-----------------------------------------------------------------------------
(* analyze_package *)

web_extensions ==
    {<<".", "j", "s">>, <<".", "c", "s", "s">>, <<".", "h", "t", "m", "l">>, <<".", "h", "t", "m">>, <<".", "s", "v", "g">>, <<".", "p", "n", "g">>, <<".", "j", "p", "g">>, <<".", "j", "p", "e", "g">>, <<".", "g", "i", "f">>}

\* the final component of a path, and the directory part before it
BaseName(p) == SubSeq(p, RFind(p, "/") + 1, Len(p))
DirName(p) == SubSeq(p, 1, RFind(p, "/") - 1)

\* Path.relative_to(root) of a path under root
RelativeTo(p, root) == SubSeq(p, Len(root) + 2, Len(p))

\* whether path p lies under directory root
Under(p, root) == StartsWith(p, root \o SEP) /\ Len(p) > Len(root) + 1

\* the directories a file at path p under root needs, root excluded
RECURSIVE ParentDirs(_, _)
ParentDirs(p, root) ==
    LET dir == DirName(p)
    IN  IF ~Under(dir, root) THEN {} ELSE {DirNode(dir)} \cup ParentDirs(dir, root)

\* whether an archive member's name climbs out of the extraction directory
Escapes(m) == \E k \in 1..Len(m.path) : m.path[k] = <<".", ".">>

\* the member's components without the ".." ones
Sanitized(path) == SelectSeq(path, LAMBDA c : c # <<".", ".">>)

\* where tarfile's fully trusting extraction puts a member: ".." is followed
TarDest(root, m) ==
    IF Escapes(m) THEN DirName(root) \o SEP \o Join(Sanitized(m.path), SEP)
    ELSE root \o SEP \o Join(m.path, SEP)

\* where zipfile puts a member: ".." components are dropped
ZipDest(root, m) == root \o SEP \o Join(Sanitized(m.path), SEP)

\* the node an extracted member becomes
Extracted(dest, m) ==
    IF m.kind = "dir" THEN DirNode(dest)
    ELSE FileNode(dest, [format |-> "raw", members |-> {}, size |-> m.size,
                         complete |-> TRUE])

\* the nodes of d other than those at the given paths (an overwritten file)
Without(d, paths) == {n \in d : n.path \notin paths}

\* tar.extractall(temp_dir) at lines 60-61
ExtractTar(body, root, d, tar_filter) ==
    IF body.format # "tar" \/ ~body.complete
    THEN [raised |-> TRUE, exc |-> [type |-> "ReadError", args |-> <<>>], disk |-> d]
    ELSE IF tar_filter = "data" /\ \E m \in body.members : Escapes(m)
    THEN [raised |-> TRUE, exc |-> [type |-> "OutsideDestinationError", args |-> <<>>],
          disk |-> d]
    ELSE
      LET new == {Extracted(TarDest(root, m), m) : m \in body.members}
          dirs == UNION {ParentDirs(n.path, root) : n \in new}
      IN  [raised |-> FALSE, exc |-> NoExc,
           disk |-> Without(d, Paths(new)) \cup new \cup Without(dirs, Paths(new))]

\* zip_ref.extractall(temp_dir) at lines 63-64
ExtractZip(body, root, d) ==
    IF body.format # "zip" \/ ~body.complete
    THEN [raised |-> TRUE, exc |-> [type |-> "BadZipFile", args |-> <<>>], disk |-> d]
    ELSE
      LET new == {Extracted(ZipDest(root, m), m) : m \in body.members}
          dirs == UNION {ParentDirs(n.path, root) : n \in new}
      IN  [raised |-> FALSE, exc |-> NoExc,
           disk |-> Without(d, Paths(new)) \cup new \cup Without(dirs, Paths(new))]

\* the body of the file at path p
BodyAt(d, p) == (CHOOSE n \in d : n.path = p).body

\* lines 57-64: the extraction chosen by the name of the file
Extract(path, root, d, tar_filter) ==
    IF EndsWith(path, TAR_GZ) THEN ExtractTar(BodyAt(d, path), root, d, tar_filter)
    ELSE IF EndsWith(path, ZIP) THEN ExtractZip(BodyAt(d, path), root, d)
    ELSE [raised |-> FALSE, exc |-> NoExc, disk |-> d]

\* the regular files below root
FilesUnder(d, root) == {n \in d : n.kind = "file" /\ Under(n.path, root)}

\* the orders in which os.walk(root) can yield the files below root: top
\* down, the files of one directory together, in the order the file system
\* lists them
WalkOrders(d, root) ==
    LET files == FilesUnder(d, root)
        n == Cardinality(files)
        Pos(s, f) == CHOOSE k \in 1..n : s[k] = f
        In(f, dir) == DirName(f.path) = dir \/ Under(DirName(f.path), dir)
    IN  {s \in [1..n -> files] :
           /\ \A f \in files : \E k \in 1..n : s[k] = f
           /\ \A f, g \in files :
                Under(DirName(g.path), DirName(f.path)) => Pos(s, f) < Pos(s, g)
           /\ \A f, g, h \in files :
                ~(/\ Pos(s, f) < Pos(s, h) /\ Pos(s, h) < Pos(s, g)
                  /\ \E dir \in {DirName(x.path) : x \in files} :
                        In(f, dir) /\ In(g, dir) /\ ~In(h, dir))}

\* dict[key] = value on an insertion-ordered dict, kept as the sequence of
\* its items
DictSet(dict, key, value) ==
    IF \E k \in 1..Len(dict) : dict[k].key = key
    THEN [k \in 1..Len(dict) |->
            IF dict[k].key = key THEN [key |-> key, value |-> value] ELSE dict[k]]
    ELSE Append(dict, [key |-> key, value |-> value])

\* a test that compares the extension as it is spelled
IsWebAssetCaseSensitive(p) == Suffix(BaseName(p)) \in web_extensions

\* the test of line 69
IsWebAsset(p) == Lower(Suffix(BaseName(p))) \in web_extensions

\* lines 66-76 on the files in the order walk
RECURSIVE Collect(_, _, _)
Collect(walk, root, dict) ==
    IF Len(walk) = 0 THEN dict
    ELSE
      LET f == Head(walk)
          rel_path == RelativeTo(f.path, root)
          details == [size |-> f.body.size, extension |-> Lower(Suffix(BaseName(f.path))),
                      path |-> rel_path]
      IN  Collect(Tail(walk), root,
                  IF IsWebAsset(f.path) THEN DictSet(dict, rel_path, details) ELSE dict)

\* TemporaryDirectory.__exit__: the directory and all below it are removed
Cleanup(d, root) == {n \in d : n.path # root /\ ~Under(n.path, root)}

TarFilters == {"fully_trusted", "data"}

\* analyze_package(file_path) on the disk d: the outcomes it can have, one
\* for each default extraction filter of the interpreter and each order in
\* which the file system lists the files.  An outcome also records the
\* extraction directory and the disk as it was before the directory was
\* removed.
analyze_package(path, d) ==
    LET temp_dir == Mkdtemp(d)
        d0 == d \cup {DirNode(temp_dir)}
    IN  UNION {
          LET x == Extract(path, temp_dir, d0, tar_filter)
          IN  IF x.raised
              THEN {[raised |-> TRUE, exc |-> x.exc, value |-> <<>>,
                     disk |-> Cleanup(x.disk, temp_dir),
                     root |-> temp_dir, during |-> x.disk]}
              ELSE {[raised |-> FALSE, exc |-> NoExc,
                     value |-> Collect(walk, temp_dir, <<>>),
                     disk |-> Cleanup(x.disk, temp_dir),
                     root |-> temp_dir, during |-> x.disk] :
                       walk \in WalkOrders(x.disk, temp_dir)}
          : tar_filter \in TarFilters}

-----------------------------------------------------------------------------
(* analyze_dataframe *)

RECURSIVE SumSizes(_)
\* df["size"].sum()
SumSizes(df) == IF Len(df) = 0 THEN 0 ELSE Head(df).size + SumSizes(Tail(df))

\* bytes in a megabyte, the divisor of lines 82 and 115
MB == 1024 * 1024

\* x formatted with :.2f, as hundredths; x is the exact fraction num / den
\* and a tie is rounded to the even hundredth
Fmt2(num, den) ==
    LET q == (num * 100) \div den
        r == (num * 100) % den
    IN  IF 2 * r > den \/ (2 * r = den /\ q % 2 = 1) THEN q + 1 ELSE q

\* line 82: the column size_mb, kept as bytes over MB
WithSizeMb(df) ==
    [k \in 1..Len(df) |->
        [path |-> df[k].path, size |-> df[k].size, extension |-> df[k].extension,
         size_mb |-> [num |-> df[k].size, den |-> MB]]]

\* df.groupby("extension")["size"].sum()
SizeByExtension(df) ==
    LET exts == {df[k].extension : k \in 1..Len(df)}
    IN  [e \in exts |-> SumSizes(SelectSeq(df, LAMBDA row : row.extension = e))]

RECURSIVE SortDesc(_)
\* sort_values("size_mb", ascending=False): rows of equal size keep their order
SortDesc(df) ==
    IF Len(df) = 0 THEN <<>>
    ELSE
      LET k == CHOOSE k \in 1..Len(df) :
                 /\ \A h \in 1..Len(df) : df[h].size <= df[k].size
                 /\ \A h \in 1..(k - 1) : df[h].size < df[k].size
      IN  <<df[k]>> \o SortDesc(SubSeq(df, 1, k - 1) \o SubSeq(df, k + 1, Len(df)))

\* df["size_mb"].median() as a fraction of a megabyte: twice the median in
\* bytes over 2 * MB
Median2(df) ==
    LET s == SortDesc(df)
        n == Len(s)
    IN  IF n % 2 = 1 THEN 2 * s[(n + 1) \div 2].size
        ELSE s[n \div 2].size + s[(n \div 2) + 1].size

Element(kind, text, data) == [kind |-> kind, text |-> text, data |-> data]

\* the elements analyze_dataframe renders, in order (lines 91-123)
Rendering(df) ==
    << Element("plotly_chart", "Distribution of Asset Sizes by Type", SizeByExtension(df)),
       Element("plotly_chart", "Distribution of Asset Sizes",
               [k \in 1..Len(df) |-> <<df[k].size_mb, df[k].extension>>]),
       Element("subheader", "Asset Details", <<>>),
       Element("dataframe", "",
               [k \in 1..Len(df) |->
                  LET row == SortDesc(df)[k]
                  IN  <<row.path, row.extension, row.size_mb>>]),
       Element("subheader", "Summary", <<>>),
       Element("markdown", "summary",
               [total_assets |-> Len(df),
                total_size |-> Fmt2(SumSizes(df), MB),
                average_size |-> Fmt2(SumSizes(df), Len(df) * MB),
                median_size |-> Fmt2(Median2(df), 2 * MB)]) >>

\* the rendering calls of lines 91-123, in order
RenderCalls == <<"plotly_chart", "plotly_chart", "subheader", "dataframe", "subheader", "markdown">>

\* the rendering call that fails: none (0), the first one or the last one
Faults == {0, 1, Len(RenderCalls)}

\* analyze_dataframe(df): the frame as it is left (with its new column) and
\* the elements rendered; when fault is k > 0 the k-th rendering call raises.
\* A frame built from no rows has no column "size", and line 82 raises.
analyze_dataframe(df, fault) ==
    LET df2 == WithSizeMb(df)
    IN  IF Len(df) = 0
        THEN [raised |-> TRUE, exc |-> [type |-> "KeyError", args |-> <<<<"s", "i", "z", "e">>>>],
              df |-> df, ui |-> <<>>]
        ELSE IF fault = 0
        THEN [raised |-> FALSE, exc |-> NoExc, df |-> df2, ui |-> Rendering(df2)]
        ELSE [raised |-> TRUE, exc |-> [type |-> "RenderError", args |-> <<>>],
              df |-> df2, ui |-> SubSeq(Rendering(df2), 1, fault - 1)]

-----------------------------------------------------------------------------
(* The world of the script: the index pages and the files behind them *)

FILES_PREFIX == <<"h", "t", "t", "p", "s", ":", "/", "/", "f", "i", "l", "e", "s", ".", "p", "y", "t", "h", "o", "n", "h", "o", "s", "t", "e", "d", ".", "o", "r", "g", "/">>

Member(path, kind, size) == [path |-> path, kind |-> kind, size |-> size]

Archive(format, members) ==
    [format |-> format, members |-> members, size |-> 0, complete |-> TRUE]

ReleaseFile(packagetype, url) == [packagetype |-> packagetype, url |-> url]

PackageData(version, releases) == [info |-> [version |-> version], releases |-> releases]

SdistA1 == FILES_PREFIX \o <<"a", "-", "1", ".", "t", "a", "r", ".", "g", "z">>
SdistA == FILES_PREFIX \o <<"a", "-", "2", ".", "t", "a", "r", ".", "g", "z">>
WheelA == FILES_PREFIX \o <<"a", "-", "2", ".", "w", "h", "l">>
SdistB == FILES_PREFIX \o <<"b", "-", "1", ".", "t", "a", "r", ".", "g", "z">>
SdistZ == FILES_PREFIX \o <<"z", "-", "1", ".", "z", "i", "p">>
WheelW == FILES_PREFIX \o <<"w", "-", "1", ".", "w", "h", "l">>

\* package a: the newest version has a wheel and a tar.gz sdist with two web
\* assets in one directory; b: a tar.gz sdist without web assets; z: a zip
\* sdist with a web asset; w: a wheel only
Web ==
    (PYPI_PREFIX \o <<"a">> \o JSON_SUFFIX :>
        JsonPage(PackageData(<<"2">>,
            (<<"1">> :> <<ReleaseFile("sdist", SdistA1)>>) @@
            (<<"2">> :> <<ReleaseFile("bdist_wheel", WheelA), ReleaseFile("sdist", SdistA)>>))))
    @@ (PYPI_PREFIX \o <<"b">> \o JSON_SUFFIX :>
        JsonPage(PackageData(<<"1">>,
            (<<"1">> :> <<ReleaseFile("sdist", SdistB)>>))))
    @@ (PYPI_PREFIX \o <<"z">> \o JSON_SUFFIX :>
        JsonPage(PackageData(<<"1">>,
            (<<"1">> :> <<ReleaseFile("sdist", SdistZ)>>))))
    @@ (PYPI_PREFIX \o <<"w">> \o JSON_SUFFIX :>
        JsonPage(PackageData(<<"1">>,
            (<<"1">> :> <<ReleaseFile("bdist_wheel", WheelW)>>))))
    @@ (SdistA1 :> FilePage(Archive("tar", {Member(<<<<"d">>, <<"x", ".", "j", "s">>>>, "file", 1)})))
    @@ (SdistA :> FilePage(Archive("tar",
            {Member(<<<<"d">>>>, "dir", 0),
             Member(<<<<"d">>, <<"x", ".", "j", "s">>>>, "file", 3),
             Member(<<<<"d">>, <<"i", ".", "P", "N", "G">>>>, "file", 5),
             Member(<<<<"d">>, <<"s", ".", "p", "y">>>>, "file", 7)})))
    @@ (WheelA :> FilePage(Archive("zip", {Member(<<<<"d">>, <<"x", ".", "j", "s">>>>, "file", 3)})))
    @@ (SdistB :> FilePage(Archive("tar", {Member(<<<<"d">>, <<"s", ".", "p", "y">>>>, "file", 7)})))
    @@ (SdistZ :> FilePage(Archive("zip", {Member(<<<<"d">>, <<"x", ".", "j", "s">>>>, "file", 2)})))
    @@ (WheelW :> FilePage(Archive("zip", {Member(<<<<"d">>, <<"x", ".", "j", "s">>>>, "file", 2)})))

\* the default value of the text field (line 130)
DefaultInput ==
    <<
       "s", "t", "r", "e", "a", "m", "l", "i", "t", "-", "c", "o", "o", "k",
       "i", "e", "s", "-", "m", "a", "n", "a", "g", "e", "r", ",", "s", "t",
       "r", "e", "a", "m", "l", "i", "t", "-", "o", "p", "t", "i", "o", "n",
       "-", "m", "e", "n", "u", ",", "s", "t", "r", "e", "a", "m", "l", "i",
       "t", "-", "a", "g", "g", "r", "i", "d", ",", "s", "t", "-", "a", "u",
       "t", "o", "r", "e", "f", "r", "e", "s", "h", ",", "s", "t", "r", "e",
       "a", "m", "l", "i", "t", "-", "a", "n", "t", "d", "-", "c", "o", "m",
       "p", "o", "n", "e", "n", "t", "s", ",", "s", "t", "r", "e", "a", "m",
       "l", "i", "t", "-", "f", "o", "l", "i", "u", "m", ",", "s", "t", "r",
       "e", "a", "m", "l", "i", "t", "-", "f", "e", "e", "d", "b", "a", "c",
       "k", ",", "s", "t", "r", "e", "a", "m", "l", "i", "t", "-", "t", "h",
       "e", "m", "e", ",", "s", "t", "r", "e", "a", "m", "l", "i", "t", "-",
       "l", "o", "t", "t", "i", "e", "," >>

InputAlphabet == {"a", ",", " "}

\* the strings over InputAlphabet of length at most n
RECURSIVE Strings(_)
Strings(n) ==
    IF n = 0 THEN {<<>>}
    ELSE LET shorter == Strings(n - 1)
         IN  shorter \cup {Append(t, c) : t \in shorter, c \in InputAlphabet}

\* inputs that name the other packages of the world
OtherInputs ==
    {<<"b">>, <<"z">>, <<"w">>, <<"a", ",", "a">>, <<"b", ",", "a">>,
     <<"z", ",", " ", "a">>}

\* what the user can have in the text field
Inputs == Strings(MaxInputLen) \cup OtherInputs \cup {DefaultInput}

-----------------------------------------------------------------------------
(* The script *)

\* line 136
Parse(text) == LET parts == Split(text, ",") IN [k \in 1..Len(parts) |-> Strip(parts[k])]

\* an accumulator that keeps what the last run left in it
KeptDataframes == dataframes

\* line 134
InitialDataframes == <<>>

\* line 135
EntersLoop(button) == button

\* a test of line 146 that never finds the mapping empty
NoAssetsNever(dict) == FALSE

\* line 146: not assets
NoAssets(dict) == Len(dict) = 0

\* lines 151-160: one row for each value of assets, in the dict's order
DataFrame(dict) ==
    [k \in 1..Len(dict) |->
        [path |-> dict[k].value.path, size |-> dict[k].value.size,
         extension |-> dict[k].value.extension]]

\* a concatenation that keeps the first frame only
ConcatFirst(frames) == IF Len(frames) = 0 THEN <<>> ELSE Head(frames)

RECURSIVE Concat(_)
\* pd.concat(frames, axis=0, ignore_index=True)
Concat(frames) == IF Len(frames) = 0 THEN <<>> ELSE Head(frames) \o Concat(Tail(frames))

\* the classes of the exceptions the three calls raise, all of them
\* subclasses of Exception
ExceptionClasses ==
    {"ConnectionError", "HTTPError", "ChunkedEncodingError", "KeyError", "ValueError",
     "ReadError", "OutsideDestinationError", "BadZipFile", "RenderError"}

\* a handler for the errors of the requests only
HandlesRequestErrors(e) == e.type \in {"ConnectionError", "HTTPError", "ChunkedEncodingError"}

\* line 164: except Exception
Handles(e) == e.type \in ExceptionClasses

\* line 165
ErrorElement(package, e) == Element("error", "Error analyzing", <<package, e>>)

\* what the transport does to the two requests of a download.  In the runs
\* of the script both requests get their response (a page or a 404); the
\* failing transport is exercised by the single calls of SpecDL.
Transports == {"ok", "fail"} \X {"ok", "fail", "cut"}
ScriptTransports == {<<"ok", "ok">>}

\* the history entry of an iteration: the package, how it ended ("ok",
\* "empty" or "error"), the exception raised in it, the rows it contributed,
\* the requests made, the extraction directory and every node that was on
\* disk at some moment of the iteration but not before it
Entry(package, outcome, e, rows, reqs, root, created) ==
    [package |-> package, outcome |-> outcome, exc |-> e, rows |-> rows,
     http |-> reqs, root |-> root, created |-> created]

\* what the body of the try statement leaves behind
Step(u, d, frames, path, dict, entry) ==
    [ui |-> u, disk |-> d, dataframes |-> frames, file_path |-> path,
     assets |-> dict, entry |-> entry]

\* lines 139-163: the outcomes of the body of the loop for package, from the
\* rendered elements u, the disk d, the accumulator frames and the web w
LoopBody(package, u, d, frames, w) ==
    LET u1 == Append(u, Element("subheader", "Analysis for", package))
    IN  UNION {
          LET dl == download_package(package, None, w, d, net)
              made == dl.disk \ d
          IN  IF dl.raised
              THEN {Step(u1, dl.disk, frames, None, <<>>,
                         Entry(package, "error", dl.exc, <<>>, dl.http, None, made))}
              ELSE UNION {
                LET made2 == made \cup (an.during \ d)
                IN  IF an.raised
                    THEN {Step(u1, an.disk, frames, dl.value, <<>>,
                               Entry(package, "error", an.exc, <<>>, dl.http, an.root,
                                     made2))}
                    ELSE IF NoAssets(an.value)
                    THEN {Step(Append(u1, Element("warning",
                                   "No web assets found in package", <<>>)),
                               an.disk, frames, dl.value, an.value,
                               Entry(package, "empty", NoExc, <<>>, dl.http, an.root,
                                     made2))}
                    ELSE {
                      LET r == analyze_dataframe(DataFrame(an.value), fault)
                      IN  IF r.raised
                          THEN Step(u1 \o r.ui, an.disk, frames, dl.value, an.value,
                                    Entry(package, "error", r.exc, <<>>, dl.http,
                                          an.root, made2))
                          ELSE Step(u1 \o r.ui, an.disk, Append(frames, r.df),
                                    dl.value, an.value,
                                    Entry(package, "ok", NoExc, r.df, dl.http, an.root,
                                          made2))
                      : fault \in Faults}
                : an \in analyze_package(dl.value, dl.disk)}
          : net \in ScriptTransports}

\* the script starts: lines 126-136.  The user's text and whether the run
\* comes from a press of the button are the inputs.
Rerun ==
    /\ pc = "idle"
    /\ runs < MaxRuns
    /\ \E text \in Inputs, pressed \in BOOLEAN :
         /\ package_input' = text
         /\ analyze_button' = pressed
         /\ packages' = IF EntersLoop(pressed) THEN Parse(text) ELSE <<>>
    /\ runs' = runs + 1
    /\ i' = 0
    /\ dataframes' = InitialDataframes
    /\ ui' = << Element("title", "PyPI Package Web Asset Analyzer", <<>>),
                Element("text_input", "Enter PyPI package names (comma-separated)", <<>>),
                Element("button", "Analyze Packages", <<>>) >>
    /\ http' = <<>>
    /\ file_path' = None
    /\ assets' = <<>>
    /\ exc' = NoExc
    /\ call' = None
    /\ log' = <<>>
    /\ pc' = "loop"
    /\ UNCHANGED <<disk, web>>

\* one iteration of the loop of line 138, with the handler of lines 164-165:
\* an exception that is handled is reported and the loop goes on, any other
\* would end the run
Iterate ==
    /\ pc = "loop"
    /\ i < Len(packages)
    /\ \E step \in LoopBody(packages[i + 1], ui, disk, dataframes, web) :
         /\ ui' = IF step.entry.exc # NoExc /\ Handles(step.entry.exc)
                  THEN Append(step.ui, ErrorElement(packages[i + 1], step.entry.exc))
                  ELSE step.ui
         /\ pc' = IF step.entry.exc # NoExc /\ ~Handles(step.entry.exc)
                  THEN "idle" ELSE "loop"
         /\ disk' = step.disk
         /\ dataframes' = step.dataframes
         /\ exc' = step.entry.exc
         /\ file_path' = step.file_path
         /\ assets' = step.assets
         /\ http' = step.entry.http
         /\ log' = Append(log, step.entry)
    /\ call' = <<packages[i + 1], None>>
    /\ i' = i + 1
    /\ UNCHANGED <<runs, package_input, analyze_button, packages, web>>

\* the loop is over, or was not entered: lines 167-169, and the run ends
Summary ==
    /\ pc = "loop"
    /\ i = Len(packages)
    /\ IF Len(dataframes) # 0
       THEN \E fault \in Faults :
              LET r == analyze_dataframe(Concat(dataframes), fault)
              IN  /\ ui' = Append(ui, Element("write", "# Cumulative summary", <<>>)) \o r.ui
                  /\ exc' = r.exc
       ELSE UNCHANGED <<ui, exc>>
    /\ pc' = "idle"
    /\ UNCHANGED <<runs, package_input, analyze_button, packages, i, dataframes, disk,
                   http, web, file_path, assets, call, log>>

TMP == <<"/", "t", "m", "p">>

Init ==
    /\ pc = "idle"
    /\ runs = 0
    /\ package_input = DefaultInput
    /\ analyze_button = FALSE
    /\ packages = <<>>
    /\ i = 0
    /\ dataframes = <<>>
    /\ ui = <<>>
    /\ disk = {DirNode(TMP)}
    /\ http = <<>>
    /\ web = Web
    /\ file_path = None
    /\ assets = <<>>
    /\ exc = NoExc
    /\ call = None
    /\ log = <<>>

Next == Rerun \/ Iterate \/ Summary

Spec == Init /\ [][Next]_vars

-----------------------------------------------------------------------------
(* Calls of download_package on index pages drawn from bounded sets *)

Versions == {<<"1">>, <<"2">>}

Sdist1 == FILES_PREFIX \o <<"a", "-", "1", ".", "t", "a", "r", ".", "g", "z">>
Sdist2 == FILES_PREFIX \o <<"a", "-", "1", ".", "z", "i", "p">>
Wheel1 == FILES_PREFIX \o <<"a", "-", "1", ".", "w", "h", "l">>

\* the files a release can list
ReleaseFiles ==
    {ReleaseFile("sdist", Sdist1), ReleaseFile("sdist", Sdist2),
     ReleaseFile("bdist_wheel", Wheel1)}

\* the sequences over S of length at most n
RECURSIVE SeqsUpTo(_, _)
SeqsUpTo(S, n) ==
    IF n = 0 THEN {<<>>}
    ELSE LET shorter == SeqsUpTo(S, n - 1)
         IN  shorter \cup {Append(t, x) : t \in shorter, x \in S}

\* the file host of these calls: each url has a body of its own
FileHost ==
    (Sdist1 :> FilePage(Archive("tar", {Member(<<<<"x", ".", "j", "s">>>>, "file", 1)})))
    @@ (Sdist2 :> FilePage(Archive("zip", {Member(<<<<"x", ".", "j", "s">>>>, "file", 2)})))
    @@ (Wheel1 :> FilePage(Archive("zip", {Member(<<<<"x", ".", "j", "s">>>>, "file", 3)})))

PackageA == <<"a">>
PackageQ == <<"q">>

\* the webs in which package a has a page and package q has none
IndexPages ==
    {(PYPI_PREFIX \o PackageA \o JSON_SUFFIX :> JsonPage(PackageData(v, releases)))
        @@ FileHost :
        v \in Versions, releases \in [Versions -> SeqsUpTo(ReleaseFiles, MaxReleases)]}

InitDL ==
    /\ pc = "call"
    /\ runs = 0
    /\ package_input = <<>>
    /\ analyze_button = FALSE
    /\ packages = <<>>
    /\ i = 0
    /\ dataframes = <<>>
    /\ ui = <<>>
    /\ disk = {DirNode(TMP)}
    /\ http = <<>>
    /\ web \in IndexPages
    /\ file_path = None
    /\ assets = <<>>
    /\ exc = NoExc
    /\ call = None
    /\ log = <<>>

\* one call download_package(name) or download_package(name, version)
CallDownload ==
    /\ pc = "call"
    /\ \E name \in {PackageA, PackageQ}, version \in Versions \cup {None},
          net \in Transports :
         LET r == download_package(name, version, web, disk, net)
         IN  /\ call' = <<name, version>>
             /\ file_path' = r.value
             /\ exc' = r.exc
             /\ disk' = r.disk
             /\ http' = r.http
    /\ pc' = "returned"
    /\ UNCHANGED <<runs, package_input, analyze_button, packages, i, dataframes, ui,
                   web, assets, log>>

NextDL == CallDownload

SpecDL == InitDL /\ [][NextDL]_vars

-----------------------------------------------------------------------------
(* Calls of analyze_package on archives drawn from bounded sets *)

\* the members an archive is made of: web assets and other files at the top
\* and in a directory, names in upper case, names with two dots, a name that
\* starts with its only dot, a name that climbs out of the extraction
\* directory, and directories
MemberUniverse ==
    {Member(<<<<"x", ".", "j", "s">>>>, "file", 1),
     Member(<<<<"d">>, <<"x", ".", "j", "s">>>>, "file", 2),
     Member(<<<<"d">>, <<"i", ".", "P", "N", "G">>>>, "file", 3),
     Member(<<<<"d">>, <<"s", ".", "p", "y">>>>, "file", 4),
     Member(<<<<"d">>, <<".", "j", "s">>>>, "file", 1),
     Member(<<<<"d">>, <<"x", ".", "j", "s", ".", "p", "y">>>>, "file", 2),
     Member(<<<<"d">>, <<"x", ".", "p", "y", ".", "j", "s">>>>, "file", 2),
     Member(<<<<"d">>, <<"j", "s">>>>, "file", 1),
     Member(<<<<"d">>, <<"x", ".", "H", "t", "m">>>>, "file", 6),
     Member(<<<<"d">>, <<"x", ".", "j", "s", "x">>>>, "file", 1),
     Member(<<<<".", ".">>, <<"e", ".", "j", "s">>>>, "file", 5),
     Member(<<<<"d">>>>, "dir", 0),
     Member(<<<<"y", ".", "c", "s", "s">>>>, "dir", 0)}

\* the subsets of S with at most n elements
RECURSIVE SubsetsUpTo(_, _)
SubsetsUpTo(S, n) ==
    IF n = 0 THEN {{}}
    ELSE LET smaller == SubsetsUpTo(S, n - 1)
         IN  smaller \cup {t \cup {x} : t \in smaller, x \in S}

\* the names the archive can have on disk
ArchivePaths ==
    {TMP_PREFIX \o <<"0">> \o SEP \o <<"p">> \o TAR_GZ,
     TMP_PREFIX \o <<"0">> \o SEP \o <<"p">> \o ZIP,
     TMP_PREFIX \o <<"0">> \o SEP \o <<"p">> \o <<".", "w", "h", "l">>}

InitAn ==
    /\ pc = "call"
    /\ runs = 0
    /\ package_input = <<>>
    /\ analyze_button = FALSE
    /\ packages = <<>>
    /\ i = 0
    /\ dataframes = <<>>
    /\ ui = <<>>
    /\ file_path \in ArchivePaths
    /\ \E format \in {"tar", "zip"}, complete \in BOOLEAN,
          members \in SubsetsUpTo(MemberUniverse, MaxMembers) :
         disk = {DirNode(TMP), DirNode(TMP_PREFIX \o <<"0">>),
                 FileNode(file_path,
                          [Archive(format, members) EXCEPT !.complete = complete])}
    /\ http = <<>>
    /\ web = Web
    /\ assets = <<>>
    /\ exc = NoExc
    /\ call = None
    /\ log = <<>>

\* one call analyze_package(file_path)
CallAnalyze ==
    /\ pc = "call"
    /\ \E an \in analyze_package(file_path, disk) :
         /\ assets' = an.value
         /\ exc' = an.exc
         /\ disk' = an.disk
         /\ log' = <<Entry(<<>>, IF an.raised THEN "error" ELSE "ok", an.exc, <<>>, <<>>,
                           an.root, an.during \ disk)>>
    /\ pc' = "returned"
    /\ UNCHANGED <<runs, package_input, analyze_button, packages, i, dataframes, ui,
                   http, web, file_path, call>>

NextAn == CallAnalyze

SpecAn == InitAn /\ [][NextAn]_vars

-----------------------------------------------------------------------------
(* Properties of download_package, checked under SpecDL *)

\* the page of package a, the release files of the version its info names
\* and the positions of the sdist files among them
PageA == web[PYPI_PREFIX \o PackageA \o JSON_SUFFIX].json
LatestFiles == PageA.releases[PageA.info.version]
SdistPositions == {k \in 1..Len(LatestFiles) : LatestFiles[k].packagetype = "sdist"}
FirstSdist == LatestFiles[CHOOSE k \in SdistPositions : \A h \in SdistPositions : k <= h]

\* download_package(a) has returned or raised
CalledWithoutVersion == pc = "returned" /\ call = <<PackageA, None>>

\* C1: download_package called without a version takes the release files of
\* info.version; when it returns, the file at the returned path holds the
\* body of the first file of type sdist in list order and the second request
\* was for that file's url; when the version has no sdist and the index
\* answered, it raises ValueError with no directory created and one request
\* made; it never requests or stores a file of another type
ThmC1 ==
    CalledWithoutVersion =>
      /\ exc = NoExc =>
           /\ SdistPositions # {}
           /\ http = <<PYPI_PREFIX \o PackageA \o JSON_SUFFIX, FirstSdist.url>>
           /\ FileNode(file_path, web[FirstSdist.url].body) \in disk
      /\ SdistPositions # {} =>
           exc.type \in {"none", "ConnectionError", "ChunkedEncodingError"}
      /\ (SdistPositions = {} /\ exc.type # "ConnectionError") =>
           /\ exc = [type |-> "ValueError", args |-> <<PackageA, PageA.info.version>>]
           /\ disk = {DirNode(TMP)}
           /\ Len(http) = 1
      /\ exc.type = "ValueError" => SdistPositions = {}
      /\ \A k \in 2..Len(http) : http[k] \in {LatestFiles[j].url : j \in SdistPositions}
      /\ \A n \in disk : n.kind = "file" =>
           \E j \in SdistPositions :
              n.body \in {web[LatestFiles[j].url].body, Partial(web[LatestFiles[j].url].body)}

\* the call returned a path for a version whose list starts with a wheel,
\* while the other version lists another sdist
WitC1 ==
    /\ CalledWithoutVersion
    /\ exc = NoExc
    /\ Len(LatestFiles) = 2
    /\ LatestFiles[1].packagetype = "bdist_wheel"
    /\ \E v \in Versions :
         /\ v # PageA.info.version
         /\ Len(PageA.releases[v]) > 0
         /\ PageA.releases[v][1].packagetype = "sdist"
         /\ PageA.releases[v][1].url # FirstSdist.url

-----------------------------------------------------------------------------
(* Properties of analyze_package, checked under SpecAn *)

\* the file names of the member universe that end in a web extension, with
\* the extension in lower case
ExpectedExtension ==
    (<<"x", ".", "j", "s">> :> <<".", "j", "s">>) @@ (<<"i", ".", "P", "N", "G">> :> <<".", "p", "n", "g">>) @@ (<<"x", ".", "p", "y", ".", "j", "s">> :> <<".", "j", "s">>)
    @@ (<<"x", ".", "H", "t", "m">> :> <<".", "h", "t", "m">>) @@ (<<"e", ".", "j", "s">> :> <<".", "j", "s">>)

\* the files that were below the extraction directory during the call, and
\* those of them whose name ends in a web extension
FilesFound == {n \in log[1].created : n.kind = "file" /\ Under(n.path, log[1].root)}
WebFilesFound == {n \in FilesFound : BaseName(n.path) \in DOMAIN ExpectedExtension}

\* the path of a found file relative to the extraction directory
Rel(n) == SubSeq(n.path, Len(log[1].root) + 2, Len(n.path))

\* the archive the call was given
GivenArchive == (CHOOSE n \in disk : n.path = file_path).body

\* C2: the mapping analyze_package returns has an entry for a file exactly
\* when the file lies below the extraction directory and its final extension
\* in lower case is a web extension; the key of an entry is its path field
\* and the file's path relative to the directory, its extension field the
\* extension in lower case, its size the size of the file; there are as many
\* entries as such files
ThmC2 ==
    (pc = "returned" /\ exc = NoExc) =>
      /\ {assets[k].key : k \in 1..Len(assets)} = {Rel(n) : n \in WebFilesFound}
      /\ Len(assets) = Cardinality(WebFilesFound)
      /\ \A k \in 1..Len(assets) :
           /\ assets[k].value.path = assets[k].key
           /\ \E n \in WebFilesFound :
                /\ Rel(n) = assets[k].key
                /\ assets[k].value.extension = ExpectedExtension[BaseName(n.path)]
                /\ assets[k].value.size = n.body.size
      /\ \A m \in GivenArchive.members :
           (/\ m.kind = "file"
            /\ m.path[1] # <<".", ".">>
            /\ EndsWith(file_path, TAR_GZ) \/ EndsWith(file_path, ZIP)) =>
             \E n \in FilesFound :
                Rel(n) = Join(m.path, SEP) /\ n.body.size = m.size

\* an archive with an image named in upper case and a file that is no web
\* asset was analysed: one entry
WitC2 ==
    /\ pc = "returned"
    /\ exc = NoExc
    /\ Cardinality(FilesFound) = 2
    /\ Len(assets) = 1
    /\ assets[1].key = <<"d", "/", "i", ".", "P", "N", "G">>
    /\ assets[1].value.extension = <<".", "p", "n", "g">>

-----------------------------------------------------------------------------
(* Properties of the script, checked under Spec *)

IsAnalysisHeading(e) == e.kind = "subheader" /\ e.text = "Analysis for"
IsError(e) == e.kind = "error"
IsSummaryHeading(e) == e.kind = "write" /\ e.text = "# Cumulative summary"

\* the elements the script renders before the button is looked at
Widgets == {"title", "text_input", "button"}

\* the entries of the history in which an exception was raised
Failed(entry) == entry.exc # NoExc

\* the entries whose package had web assets and was rendered to the end
Contributed(entry) == entry.exc = NoExc /\ entry.outcome # "empty"

RECURSIVE RowsOf(_)
\* the rows of the contributing entries of a history, in order
RowsOf(entries) ==
    IF Len(entries) = 0 THEN <<>>
    ELSE (IF Contributed(Head(entries)) THEN Head(entries).rows ELSE <<>>)
         \o RowsOf(Tail(entries))

\* C3: in a run started by the button every name of the parsed list is
\* processed once and in input order (one heading, one history entry and one
\* index request each), every failure leaves one error message that names
\* its package, and the run ends only after the last name was processed
ThmC3 ==
    analyze_button =>
      /\ Len(log) = i
      /\ i <= Len(packages)
      /\ \A k \in 1..i :
           /\ log[k].package = packages[k]
           /\ log[k].http[1] = PYPI_PREFIX \o packages[k] \o JSON_SUFFIX
      /\ LET headings == SelectSeq(ui, IsAnalysisHeading)
         IN  [k \in 1..Len(headings) |-> headings[k].data] = SubSeq(packages, 1, i)
      /\ LET errors == SelectSeq(ui, IsError)
             failed == SelectSeq(log, Failed)
         IN  [k \in 1..Len(errors) |-> errors[k].data]
               = [k \in 1..Len(failed) |-> <<failed[k].package, failed[k].exc>>]
      /\ pc = "idle" => i = Len(packages)

\* a run of two packages has ended: the first failed, the second was rendered
WitC3 ==
    /\ pc = "idle"
    /\ analyze_button
    /\ Len(log) = 2
    /\ Failed(log[1])
    /\ Contributed(log[2])

\* C4: when a run has ended, the cumulative summary was rendered exactly when
\* some package of the run had web assets and was rendered without an
\* exception; it is rendered once, from the rows of those packages in
\* processing order, and the number of assets it reports is their number
ThmC4 ==
    (pc = "idle" /\ runs > 0) =>
      LET at == {p \in 1..Len(ui) : IsSummaryHeading(ui[p])}
          rows == RowsOf(log)
      IN  /\ (at # {}) <=> (\E k \in 1..Len(log) : Contributed(log[k]))
          /\ Cardinality(at) <= 1
          /\ \A p \in at :
               LET shown == SubSeq(ui, p + 1, Len(ui))
                   full == Rendering(WithSizeMb(rows))
               IN  /\ Len(shown) <= Len(full)
                   /\ shown = SubSeq(full, 1, Len(shown))
                   /\ exc = NoExc =>
                        /\ shown = full
                        /\ ui[Len(ui)].data.total_assets = Len(rows)

\* a run has ended with its summary rendered to the end from two packages
WitC4 ==
    /\ pc = "idle"
    /\ exc = NoExc
    /\ Len(log) = 2
    /\ Contributed(log[1])
    /\ Contributed(log[2])
    /\ \E p \in 1..Len(ui) : IsSummaryHeading(ui[p])

\* C5: once the processing of a package has ended, nothing that was created
\* on disk for it exists any more
CexC5 ==
    Len(log) > 0 => \A n \in log[Len(log)].created : n.path \notin Paths(disk)

ExtractionErrors == {"ReadError", "BadZipFile", "OutsideDestinationError"}

\* an iteration in which the download and the extraction succeeded and the
\* mapping is empty
EmptyIteration ==
    /\ pc = "loop"
    /\ i' = i + 1
    /\ file_path' # None
    /\ assets' = <<>>
    /\ exc'.type \notin ExtractionErrors

\* C6: an iteration whose package downloads and extracts but has no web
\* asset renders its heading and the warning and nothing else, appends
\* nothing to the accumulator, reports no error and leaves the loop running
ThmC6 ==
    [][EmptyIteration =>
         /\ ui' = ui \o << Element("subheader", "Analysis for", packages[i + 1]),
                           Element("warning", "No web assets found in package", <<>>) >>
         /\ dataframes' = dataframes
         /\ exc' = NoExc
         /\ pc' = "loop"
         /\ packages' = packages]_vars

\* a package without web assets was followed by one that was rendered
WitC6 ==
    /\ Len(log) = 2
    /\ log[1].outcome = "empty"
    /\ Contributed(log[2])

\* C7: in a run without a press of the button nothing is requested, analysed
\* or accumulated, only the widgets are rendered and the disk does not
\* change; every run starts with an empty accumulator, and the accumulator
\* holds frames of the packages of the current run only
ThmC7 ==
    /\ [](~analyze_button =>
            /\ log = <<>>
            /\ http = <<>>
            /\ dataframes = <<>>
            /\ \A p \in 1..Len(ui) : ui[p].kind \in Widgets)
    /\ [](/\ Len(dataframes) <= Len(log)
          /\ Concat(dataframes) = RowsOf(log))
    /\ [][/\ ~analyze_button' => disk' = disk
          /\ runs' # runs => dataframes' = <<>>]_vars

\* a second run has rendered its summary from one package, on a disk that
\* holds the two archives of an earlier run of package a
WitC7 ==
    /\ runs = 2
    /\ pc = "idle"
    /\ analyze_button
    /\ Len(dataframes) = 1
    /\ \E p \in 1..Len(ui) : IsSummaryHeading(ui[p])
    /\ Cardinality({n \in disk : n.kind = "file"}) = 3
    /\ Len(log) = 1

\* the names a text enters: the parts between commas that are not blank
NamesEntered(text) ==
    LET parts == Split(text, ",")
    IN  Cardinality({k \in 1..Len(parts) : \E c \in 1..Len(parts[k]) : parts[k][c] # " "})

\* C8: every name passed to download_package is a non-empty string, and when
\* the run has ended as many names were processed as the text enters
CexC8 ==
    analyze_button =>
      /\ \A k \in 1..Len(log) : log[k].package # <<>>
      /\ pc = "idle" => Len(log) = NamesEntered(package_input)

\* the archive an iteration downloaded is a complete zip archive
DownloadedZip(entry) ==
    \E n \in entry.created : n.kind = "file" /\ n.body.format = "zip" /\ n.body.complete

\* C9: a package whose sdist is a zip archive is extracted as a zip archive:
\* its iteration ends neither in an extraction error nor without web assets
CexC9 ==
    \A k \in 1..Len(log) :
       DownloadedZip(log[k]) =>
         /\ log[k].exc.type \notin ExtractionErrors
         /\ log[k].outcome # "empty"

====
